---- MODULE Spec2Model ----
(***************************************************************************)
(* Model of the SQL guardrail validator (utils/query_validator.py) and of  *)
(* the chat answer flow with its self-healing retry (ui/chat_engine.py).   *)
(*                                                                         *)
(* A text (Python str) is a sequence of lexemes.  A lexeme is an           *)
(* indivisible run of characters: a keyword or identifier piece, a single  *)
(* decimal digit, a whitespace character, or a punctuation mark.  Word     *)
(* lexemes consist of the characters the regex class \w matches, so two    *)
(* adjacent word lexemes form one longer word and the regex anchor \b      *)
(* falls only between a word lexeme and a non-word lexeme (or the text's   *)
(* end).  No lexeme is a prefix of a keyword and no concatenation of       *)
(* lexemes spells another keyword.                                         *)
(***************************************************************************)
EXTENDS Integers, Sequences, FiniteSets, TLC

VARIABLES
    raw,          \* validator run: the raw SQL text handed to validate_query
    guardrails,   \* the content of config/guardrails.yaml (the policy)
    result,       \* validator run: outcome of validate_query(raw)
    vpc,          \* validator run: "input" before the call, "validated" after
    again,        \* validator run: outcome of validate_query on its own output
    wrapped,      \* validator run: raw wrapped in a markdown code fence
    fenced,       \* validator run: outcome of validate_query(wrapped)
    pc,           \* answer_chat: the position of the call
    prompt,       \* answer_chat: the user's prompt
    safe_mode,    \* answer_chat: the safe_mode argument
    creds,        \* the DATABRICKS_* environment variables are all set
    chat_sql,     \* answer_chat: local sql
    source_label, \* answer_chat: local source_label
    ok,           \* answer_chat: local ok
    rows,         \* answer_chat: local rows
    err,          \* answer_chat: local err
    healed_sql,   \* answer_chat: local healed_sql (None before it is set)
    healed,       \* answer_chat: local healed
    trace,        \* the collaborator calls made so far, in order
    chat_result,  \* the ChatResult answer_chat returned
    diff_text,    \* diff_util: what sql_diff returned
    chat_history, \* Chat page: the roles of st.session_state.chat_history
    last_chat_sql, \* Chat page: st.session_state.last_chat_sql
    page_pc,      \* Chat page: the position of the composer script
    agent_pc,     \* generate_safe_sql: the position of the call
    schema_context, \* generate_safe_sql: local schema_context
    sql_candidate, \* generate_safe_sql: local sql_candidate
    attempt,      \* generate_safe_sql: the fallback attempts made
    agent_result, \* generate_safe_sql: the dict result
    agent_trace,  \* generate_safe_sql: the calls made so far, in order
    vs_pc,        \* validate_spec: the position of the call
    spec,         \* validate_spec: the argument spec
    user_role,    \* validate_spec: the argument user_role
    config_files, \* config/guardrails.yaml and config/roles.yaml
    cleaned_spec, \* validate_spec: the spec returned
    violations,   \* validate_spec: the violation reasons returned
    _CACHE,       \* schema_cache: the module global _CACHE
    _CACHE_TIMESTAMP, \* schema_cache: the module global _CACHE_TIMESTAMP
    now,          \* what time.time() returns, in seconds
    cache_log     \* schema_cache: the calls made and the clock ticks, in order

(***************************************************************************)
(* Lexemes and character classes                                           *)
(***************************************************************************)
DigitChars == <<"0", "1", "2", "3", "4", "5", "6", "7", "8", "9">>

Digits == {DigitChars[i] : i \in 1..10}

Keywords == {"SELECT", "select", "WITH", "DROP", "drop", "DELETE", "delete",
             "LIMIT", "limit", "sql", "SQL", "x", "X",
             "INSERT", "INTO", "VALUES", "DESCRIBE", "FROM", "ORDER", "BY",
             "DESC", "timestamp", "TIMESTAMP", "sales", "SALES",
             "customers", "CUSTOMERS", "workspace", "WORKSPACE",
             "governed", "GOVERNED", "audit", "AUDIT",
             "query_log", "QUERY_LOG", "app_registry", "APP_REGISTRY"}

\* the characters of \w: letters, digits, underscore
WordLex == Keywords \cup Digits

\* the characters of \s
Whitespace == {" ", "\t", "\n", "\r"}

\* three backquotes, the markdown code fence (written with apostrophes:
\* a TLA+ string cannot hold a backquote)
Fence == "'''"

UpperMap == [select |-> "SELECT", drop |-> "DROP", delete |-> "DELETE",
             limit |-> "LIMIT", sql |-> "SQL", x |-> "X",
             timestamp |-> "TIMESTAMP", sales |-> "SALES",
             customers |-> "CUSTOMERS", workspace |-> "WORKSPACE",
             governed |-> "GOVERNED", audit |-> "AUDIT",
             query_log |-> "QUERY_LOG", app_registry |-> "APP_REGISTRY"]

\* str.upper() on one lexeme
UpperLex(l) == IF l \in DOMAIN UpperMap THEN UpperMap[l] ELSE l

\* str.upper()
upper(s) == [i \in 1..Len(s) |-> UpperLex(s[i])]

IsWordAt(s, i) == i >= 1 /\ i <= Len(s) /\ s[i] \in WordLex

\* the regex anchor \b between positions i and i+1 of s (i = 0: the start)
Boundary(s, i) == IsWordAt(s, i) # IsWordAt(s, i + 1)

\* the end (exclusive) of the longest run of lexemes of Set starting at i:
\* what a greedy  [Set]*  consumes from position i
Span(s, i, Set) ==
    CHOOSE j \in i..(Len(s) + 1) :
        /\ \A k \in i..(j - 1) : s[k] \in Set
        /\ (j = Len(s) + 1 \/ s[j] \notin Set)

\* the start (exclusive) of the longest run of lexemes of Set ending at i
SpanBack(s, i, Set) ==
    CHOOSE j \in 0..i :
        /\ \A k \in (j + 1)..i : s[k] \in Set
        /\ (j = 0 \/ s[j] \notin Set)

\* str.strip()
strip(s) ==
    LET a == Span(s, 1, Whitespace)
        b == SpanBack(s, Len(s), Whitespace)
    IN  IF a > b THEN <<>> ELSE SubSeq(s, a, b)

\* str.rstrip(chars)
rstrip(s, chars) == SubSeq(s, 1, SpanBack(s, Len(s), chars))

RECURSIVE int(_)
\* int(digits)
int(d) ==
    IF Len(d) = 0 THEN 0
    ELSE 10 * int(SubSeq(d, 1, Len(d) - 1))
         + (CHOOSE v \in 0..9 : DigitChars[v + 1] = d[Len(d)])

RECURSIVE format_int(_)
\* f"{n}" for a natural number n
format_int(n) ==
    IF n < 10 THEN <<DigitChars[n + 1]>>
    ELSE format_int(n \div 10) \o <<DigitChars[(n % 10) + 1]>>

(***************************************************************************)
(* The guardrail policy (config/guardrails.yaml as load_guardrails returns *)
(* it): a mapping with the optional keys banned_sql_patterns and           *)
(* max_rows_returned.  A pattern is a text.                                *)
(***************************************************************************)
\* the policy entry "SELECT *"
SelectStar == <<"SELECT", " ", "*">>

\* the default of guardrails.get("max_rows_returned", 10000)
DefaultMaxRows == 10000

\* the default of guardrails.get("banned_sql_patterns", [])
DefaultBanned == <<>>

banned_patterns(g) ==
    IF "banned_sql_patterns" \in DOMAIN g THEN g.banned_sql_patterns
    ELSE DefaultBanned

max_rows(g) ==
    IF "max_rows_returned" \in DOMAIN g THEN g.max_rows_returned
    ELSE DefaultMaxRows

(***************************************************************************)
(* The regular expressions of validate_query                               *)
(***************************************************************************)
\* re.sub(r"^\s*```(?:sql|SQL)?\s*", "", sql)
strip_open_fence(s) ==
    LET j == Span(s, 1, Whitespace)
    IN  IF j <= Len(s) /\ s[j] = Fence
        THEN LET k == IF j + 1 <= Len(s) /\ s[j + 1] \in {"sql", "SQL"}
                      THEN j + 2 ELSE j + 1
                 m == Span(s, k, Whitespace)
             IN  SubSeq(s, m, Len(s))
        ELSE s

\* strip_close_fence that leaves the text as it is
strip_close_fence_none(s) == s

\* re.sub(r"\s*```\s*$", "", sql)
strip_close_fence(s) ==
    LET e == SpanBack(s, Len(s), Whitespace)
    IN  IF e >= 1 /\ s[e] = Fence
        THEN SubSeq(s, 1, SpanBack(s, e - 1, Whitespace))
        ELSE s

\* str.startswith(keyword), keyword a single lexeme
startswith(s, kw) == Len(s) >= 1 /\ s[1] = kw

\* re.search(r'\bSELECT\s+\*', sql_upper) is not None
search_select_star(t) ==
    \E i \in 1..Len(t) :
        /\ t[i] = "SELECT"
        /\ Boundary(t, i - 1)
        /\ LET j == Span(t, i + 1, Whitespace)
           IN  j > i + 1 /\ j <= Len(t) /\ t[j] = "*"

\* search_banned looking at the first statement only: the text before the
\* first semicolon
search_banned_first_statement(pattern, t) ==
    LET semis == {i \in 1..Len(t) : t[i] = ";"}
        stop == IF semis = {} THEN Len(t)
                ELSE (CHOOSE i \in semis : \A h \in semis : i <= h) - 1
    IN  \E i \in 1..(stop - Len(pattern) + 1) :
            /\ SubSeq(t, i, i + Len(pattern) - 1) = pattern
            /\ Boundary(t, i - 1)
            /\ Boundary(t, i + Len(pattern) - 1)

\* search_banned matching the pattern anywhere, also inside a longer word
search_banned_substring(pattern, t) ==
    \E i \in 1..(Len(t) - Len(pattern) + 1) :
        SubSeq(t, i, i + Len(pattern) - 1) = pattern

\* re.search(r'\b' + re.escape(pattern) + r'\b', sql_upper) is not None
search_banned(pattern, t) ==
    \E i \in 1..(Len(t) - Len(pattern) + 1) :
        /\ SubSeq(t, i, i + Len(pattern) - 1) = pattern
        /\ Boundary(t, i - 1)
        /\ Boundary(t, i + Len(pattern) - 1)

\* r'\bLIMIT\s+(\d+)\b' matches t at position i
LimitMatchAt(t, i) ==
    /\ t[i] = "LIMIT"
    /\ Boundary(t, i - 1)
    /\ LET j == Span(t, i + 1, Whitespace)
           k == Span(t, j, Digits)
       IN  j > i + 1 /\ k > j /\ Boundary(t, k - 1)

\* re.search(r'\bLIMIT\s+(\d+)\b', sql_upper): the position of the first
\* match, 0 when there is none
limit_match(t) ==
    IF \E i \in 1..Len(t) : LimitMatchAt(t, i)
    THEN CHOOSE i \in 1..Len(t) :
            LimitMatchAt(t, i) /\ \A h \in 1..(i - 1) : ~LimitMatchAt(t, h)
    ELSE 0

\* limit_match.group(1)
limit_group1(t, i) ==
    LET j == Span(t, i + 1, Whitespace)
    IN  SubSeq(t, j, Span(t, j, Digits) - 1)

\* r'(?i)(\bLIMIT\s+)\d+' matches s at position i
SubLimitMatchAt(s, i) ==
    /\ UpperLex(s[i]) = "LIMIT"
    /\ Boundary(s, i - 1)
    /\ LET j == Span(s, i + 1, Whitespace)
       IN  j > i + 1 /\ Span(s, j, Digits) > j

RECURSIVE sub_limit(_, _, _)
\* re.sub(r'(?i)(\bLIMIT\s+)\d+', fr'\g<1>{max_rows}', sql), scanning from i:
\* every match keeps its group 1 and has its digits replaced
sub_limit(s, i, repl) ==
    IF i > Len(s) THEN <<>>
    ELSE IF SubLimitMatchAt(s, i)
         THEN LET j == Span(s, i + 1, Whitespace)
              IN  SubSeq(s, i, j - 1) \o repl \o sub_limit(s, Span(s, j, Digits), repl)
         ELSE <<s[i]>> \o sub_limit(s, i + 1, repl)

(***************************************************************************)
(* validate_query                                                          *)
(***************************************************************************)
EmptyQuery == "Empty query is not allowed."
OnlySelect == "Only SELECT queries are allowed."
StarNotAllowed == "SELECT * is not allowed. Please specify columns."
BannedDetected == "Banned SQL pattern detected: "

\* return sql
Accept(sql) == [ok |-> TRUE, sql |-> sql, error |-> "", pattern |-> <<>>]

\* raise ValidationError(error + pattern)
Reject(error, pattern) ==
    [ok |-> FALSE, sql |-> <<>>, error |-> error, pattern |-> pattern]

\* the body of the loop over banned_patterns for one pattern: does it raise
PatternRaises(pattern, sql_upper) ==
    IF pattern = SelectStar THEN search_select_star(sql_upper)
    ELSE search_banned(pattern, sql_upper)

\* enforce_limit that appends the cap without trimming the text's tail
enforce_limit_no_rstrip(sql, sql_upper, g) ==
    LET m == limit_match(sql_upper)
    IN  IF m # 0
        THEN IF int(limit_group1(sql_upper, m)) > max_rows(g)
             THEN sub_limit(sql, 1, format_int(max_rows(g)))
             ELSE sql
        ELSE sql \o <<" ", "LIMIT", " ">> \o format_int(max_rows(g))

\* enforce_limit that hands back the inspection copy when the limit is
\* within the cap
enforce_limit_upper(sql, sql_upper, g) ==
    LET m == limit_match(sql_upper)
    IN  IF m # 0
        THEN IF int(limit_group1(sql_upper, m)) > max_rows(g)
             THEN sub_limit(sql, 1, format_int(max_rows(g)))
             ELSE sql_upper
        ELSE rstrip(sql, {";", " ", "\t", "\n", "\r"})
             \o <<" ", "LIMIT", " ">> \o format_int(max_rows(g))

\* lines 42-53: check and enforce LIMIT
enforce_limit(sql, sql_upper, g) ==
    LET m == limit_match(sql_upper)
    IN  IF m # 0
        THEN IF int(limit_group1(sql_upper, m)) > max_rows(g)
             THEN sub_limit(sql, 1, format_int(max_rows(g)))
             ELSE sql
        ELSE rstrip(sql, {";", " ", "\t", "\n", "\r"})
             \o <<" ", "LIMIT", " ">> \o format_int(max_rows(g))

\* validate_query that sweeps the banned patterns before it checks the
\* statement shape
validate_query_sweep_first(sql0, g) ==
    IF sql0 = <<>> THEN Reject(EmptyQuery, <<>>)
    ELSE
    LET sql == strip_close_fence(strip_open_fence(sql0))
        sql_upper == strip(upper(sql))
        banned == banned_patterns(g)
        raising == {i \in 1..Len(banned) : PatternRaises(banned[i], sql_upper)}
    IN  IF raising # {}
        THEN LET first == CHOOSE i \in raising : \A h \in raising : i <= h
             IN  IF banned[first] = SelectStar
                 THEN Reject(StarNotAllowed, <<>>)
                 ELSE Reject(BannedDetected, banned[first])
        ELSE IF ~(startswith(sql_upper, "SELECT") \/ startswith(sql_upper, "WITH"))
        THEN Reject(OnlySelect, <<>>)
        ELSE Accept(enforce_limit(sql, sql_upper, g))

validate_query(sql0, g) ==
    IF sql0 = <<>> THEN Reject(EmptyQuery, <<>>)
    ELSE
    LET sql == strip_close_fence(strip_open_fence(sql0))
        sql_upper == strip(upper(sql))
        banned == banned_patterns(g)
        raising == {i \in 1..Len(banned) : PatternRaises(banned[i], sql_upper)}
    IN  IF ~(startswith(sql_upper, "SELECT") \/ startswith(sql_upper, "WITH"))
        THEN Reject(OnlySelect, <<>>)
        ELSE IF raising # {}
        THEN LET first == CHOOSE i \in raising : \A h \in raising : i <= h
             IN  IF banned[first] = SelectStar
                 THEN Reject(StarNotAllowed, <<>>)
                 ELSE Reject(BannedDetected, banned[first])
        ELSE Accept(enforce_limit(sql, sql_upper, g))

(***************************************************************************)
(* Inputs of the validator runs                                            *)
(***************************************************************************)
\* the longest input, in fragments
MaxFrags == 3

LimLo == <<" ", "LIMIT", " ", "5">>
LimHi == <<" ", "limit", " ", "5", "0">>
FenceSql == <<Fence, "sql", "\n">>
FenceTwice == <<Fence, "\n", Fence>>
DropCol == <<" ", "DROP", "x">>
SpaceStar == <<" ", "*">>

Fragments ==
    { <<"SELECT">>, <<"WITH">>, <<" ">>, <<"*">>, <<";">>, <<"x">>,
      <<"DROP">>, <<"delete">>, LimLo, LimHi, <<Fence>>, FenceSql, FenceTwice,
      DropCol, SpaceStar }

RECURSIVE Concat(_)
Concat(fs) == IF Len(fs) = 0 THEN <<>> ELSE Head(fs) \o Concat(Tail(fs))

\* the texts made of at most max fragments
Inputs(max) ==
    {Concat(fs) : fs \in UNION {[1..n -> Fragments] : n \in 0..max}}

\* the policies of the runs: the production shape (the wildcard entry and the
\* DML/DDL keywords), the same in another order with the default row cap, a
\* configuration without a banned list, and one whose entries are a
\* lower-case keyword and the keyword the validator itself appends
Policies ==
    { [banned_sql_patterns |-> <<SelectStar, <<"DROP">>, <<"DELETE">>>>,
       max_rows_returned |-> 10],
      [banned_sql_patterns |-> <<<<"DELETE">>, <<"DROP">>, SelectStar>>],
      [max_rows_returned |-> 10],
      [banned_sql_patterns |-> <<<<"drop">>, <<"LIMIT">>>>,
       max_rows_returned |-> 10] }

NoResult == [ok |-> FALSE, sql |-> <<>>, error |-> "not called", pattern |-> <<>>]

validator_vars == <<raw, result, vpc, again, wrapped, fenced>>

chat_vars == <<pc, prompt, safe_mode, creds, chat_sql, source_label, ok, rows, err,
               healed_sql, healed, trace, chat_result>>

\* the state of the other modules: utils/diff_util.py, pages/3_Chat.py
page_vars == <<chat_history, last_chat_sql, page_pc>>

agent_vars == <<agent_pc, schema_context, sql_candidate, attempt, agent_result,
                agent_trace>>

factory_vars == <<vs_pc, spec, user_role, config_files, cleaned_spec, violations>>

cache_vars == <<_CACHE, _CACHE_TIMESTAMP, now, cache_log>>

module_vars == <<diff_text, page_vars, agent_vars, factory_vars, cache_vars>>

vars == <<validator_vars, guardrails, chat_vars, module_vars>>

DiffIdle == diff_text = <<>>

\* Python None and str values
None == [null |-> TRUE, text |-> <<>>]
Str(t) == [null |-> FALSE, text |-> t]

\* ui/state.py: the session state of a fresh session
PageIdle ==
    /\ chat_history = <<>>
    /\ last_chat_sql = None
    /\ page_pc = "idle"

\* generate_safe_sql lines 83-90: the result dict before any step
NoAgentResult ==
    [sql |-> None, valid |-> FALSE, source |-> "None", error |-> <<"None">>,
     retried |-> FALSE]

\* no generate_safe_sql call is in progress
AgentIdle ==
    /\ agent_pc = "idle"
    /\ schema_context = <<>>
    /\ sql_candidate = <<>>
    /\ attempt = 0
    /\ agent_result = NoAgentResult
    /\ agent_trace = <<>>

\* no validate_spec call is in progress
FactoryIdle ==
    /\ vs_pc = "idle"
    /\ spec = <<>>
    /\ user_role = ""
    /\ config_files = <<>>
    /\ cleaned_spec = <<>>
    /\ violations = <<>>

\* the clock when the process starts, in seconds since the epoch
StartTime == 1700000000

\* schema_cache.py lines 4-5: the module as loaded
CacheIdle ==
    /\ _CACHE = <<>>
    /\ _CACHE_TIMESTAMP = 0
    /\ now = StartTime
    /\ cache_log = <<>>

\* nothing of the other modules has run
ModulesIdle == DiffIdle /\ PageIdle /\ AgentIdle /\ FactoryIdle /\ CacheIdle

NoChatResult == [returned |-> FALSE]

\* no answer_chat call is in progress
ChatIdle ==
    /\ pc = "idle"
    /\ prompt = <<>>
    /\ safe_mode = FALSE
    /\ creds = FALSE
    /\ chat_sql = <<>>
    /\ source_label = "unknown"
    /\ ok = FALSE
    /\ rows = <<>>
    /\ err = ""
    /\ healed_sql = None
    /\ healed = FALSE
    /\ trace = <<>>
    /\ chat_result = NoChatResult

InitValidate ==
    /\ raw \in Inputs(MaxFrags)
    /\ guardrails \in Policies
    /\ result = NoResult
    /\ vpc = "input"
    /\ again = NoResult
    /\ wrapped = <<>>
    /\ fenced = NoResult
    /\ ChatIdle
    /\ ModulesIdle

\* one call validate_query(raw)
Validate ==
    /\ vpc = "input"
    /\ result' = validate_query(raw, guardrails)
    /\ vpc' = "validated"
    /\ UNCHANGED <<raw, again, wrapped, fenced, guardrails, chat_vars, module_vars>>

\* one call validate_query(validated) on the text a first call returned
Revalidate ==
    /\ vpc = "validated"
    /\ result.ok
    /\ again' = validate_query(result.sql, guardrails)
    /\ vpc' = "revalidated"
    /\ UNCHANGED <<raw, result, wrapped, fenced, guardrails, chat_vars, module_vars>>

\* the markdown code fences an LLM wraps its SQL in: bare, with the
\* language tag on lines of their own, and with whitespace around them
Wrappers ==
    { [open |-> <<Fence>>, close |-> <<Fence>>],
      [open |-> <<Fence, "sql", "\n">>, close |-> <<"\n", Fence>>],
      [open |-> <<" ", Fence, "SQL", " ">>, close |-> <<" ", Fence, "\n">>] }

\* one call validate_query(wrapped), wrapped being the unfenced text raw
\* inside a code fence
ValidateFenced ==
    /\ vpc = "validated"
    /\ \A i \in 1..Len(raw) : raw[i] # Fence
    /\ \E w \in Wrappers :
          /\ wrapped' = w.open \o raw \o w.close
          /\ fenced' = validate_query(w.open \o raw \o w.close, guardrails)
    /\ vpc' = "fenced"
    /\ UNCHANGED <<raw, result, again, guardrails, chat_vars, module_vars>>

NextValidate == Validate \/ Revalidate \/ ValidateFenced

SpecValidate == InitValidate /\ [][NextValidate]_vars

(***************************************************************************)
(* utils/diff_util.py                                                      *)
(***************************************************************************)
\* str.splitlines(keepends=True): a line ends after "\n", after "\r\n" and
\* after a lone "\r"
RECURSIVE splitlines(_)
splitlines(t) ==
    IF t = <<>> THEN <<>>
    ELSE LET breaks == {k \in 1..Len(t) : t[k] \in {"\n", "\r"}}
         IN  IF breaks = {} THEN <<t>>
             ELSE LET k == CHOOSE k \in breaks : \A h \in breaks : k <= h
                      e == IF t[k] = "\r" /\ k < Len(t) /\ t[k + 1] = "\n"
                           THEN k + 1 ELSE k
                  IN  <<SubSeq(t, 1, e)>> \o splitlines(SubSeq(t, e + 1, Len(t)))

\* the blocks of lines that a and b have in common: <<i, j, k>> for k equal
\* lines from a[i] and b[j] on
MatchingBlocks(a, b) ==
    {m \in (1..Len(a)) \X (1..Len(b)) \X (1..Len(a)) :
        /\ m[1] + m[3] - 1 <= Len(a)
        /\ m[2] + m[3] - 1 <= Len(b)
        /\ SubSeq(a, m[1], m[1] + m[3] - 1) = SubSeq(b, m[2], m[2] + m[3] - 1)}

\* SequenceMatcher.find_longest_match: the longest block, of those the one
\* that starts earliest in a, of those the one that starts earliest in b
find_longest_match(a, b) ==
    CHOOSE m \in MatchingBlocks(a, b) :
        \A o \in MatchingBlocks(a, b) :
            \/ m[3] > o[3]
            \/ m[3] = o[3] /\ m[1] < o[1]
            \/ m[3] = o[3] /\ m[1] = o[1] /\ m[2] <= o[2]

RECURSIVE diff_lines(_, _)
\* the body of the hunk for the line lists a and b: the opcodes of
\* SequenceMatcher(None, a, b) written as lines, common lines after a blank,
\* lines of a only after "-", lines of b only after "+"
diff_lines(a, b) ==
    IF MatchingBlocks(a, b) = {}
    THEN [i \in 1..Len(a) |-> <<"-">> \o a[i]] \o [j \in 1..Len(b) |-> <<"+">> \o b[j]]
    ELSE LET m == find_longest_match(a, b)
         IN  diff_lines(SubSeq(a, 1, m[1] - 1), SubSeq(b, 1, m[2] - 1))
             \o [i \in 1..m[3] |-> <<" ">> \o a[m[1] + i - 1]]
             \o diff_lines(SubSeq(a, m[1] + m[3], Len(a)),
                           SubSeq(b, m[2] + m[3], Len(b)))

\* _format_range_unified(0, n) of difflib for a file of n lines
format_range(n) ==
    IF n = 1 THEN <<"1">>
    ELSE IF n = 0 THEN <<"0", ",", "0">>
    ELSE <<"1", ",">> \o format_int(n)

RECURSIVE join(_, _)
\* sep.join(lines)
join(sep, lines) ==
    IF Len(lines) = 0 THEN <<>>
    ELSE IF Len(lines) = 1 THEN lines[1]
    ELSE lines[1] \o <<sep>> \o join(sep, Tail(lines))

\* sql_diff that compares the texts as given, without stripping them
sql_diff_unstripped(original, fixed) ==
    LET original_lines == splitlines(original)
        healed_lines == splitlines(fixed)
    IN  IF original_lines = healed_lines THEN <<>>
        ELSE join("\n",
                  << <<"--- Original SQL (failed)">>,
                     <<"+++ Healed SQL (succeeded)">>,
                     <<"@@ -">> \o format_range(Len(original_lines))
                        \o <<" +">> \o format_range(Len(healed_lines))
                        \o <<" @@">> >>
                  \o diff_lines(original_lines, healed_lines))

\* sql_diff(original_sql, healed_sql) for texts of at most three lines each
\* (the three lines of context then cover the whole text and the diff is one
\* hunk): the lines of difflib.unified_diff(..., lineterm="") joined by "\n"
sql_diff(original, fixed) ==
    LET original_lines == splitlines(strip(original))
        healed_lines == splitlines(strip(fixed))
    IN  IF original_lines = healed_lines THEN <<>>
        ELSE join("\n",
                  << <<"--- Original SQL (failed)">>,
                     <<"+++ Healed SQL (succeeded)">>,
                     <<"@@ -">> \o format_range(Len(original_lines))
                        \o <<" +">> \o format_range(Len(healed_lines))
                        \o <<" @@">> >>
                  \o diff_lines(original_lines, healed_lines))

(***************************************************************************)
(* The chat answer flow (ui/chat_engine.py)                                *)
(***************************************************************************)
_BLOCKED_TERMS ==
    {"email", "phone", "ssn", "address", "password", "credit card",
     "card number", "social security", "personal info", "pii"}

MAX_RETRIES == 1

LowerMap == [Email |-> "email", Orders |-> "orders"]

\* str.lower()
lower(s) == [i \in 1..Len(s) |-> IF s[i] \in DOMAIN LowerMap THEN LowerMap[s[i]] ELSE s[i]]

\* HasBlockedTerm that compares the prompt as typed, not its lower-case form
HasBlockedTerm_as_typed(p) == \E i \in 1..Len(p) : p[i] \in _BLOCKED_TERMS

\* any(t in lower for t in _BLOCKED_TERMS)
HasBlockedTerm(p) == \E i \in 1..Len(p) : lower(p)[i] \in _BLOCKED_TERMS

\* limit = 50 if safe_mode else 500
chat_limit(safe) == IF safe THEN 50 ELSE 500

\* dict.get(key, default)
get(d, key, default) == IF key \in DOMAIN d THEN d[key] ELSE default

\* what call_claude returns: None on any failure, else the tool input the
\* model produced (utils/llm.py returns response.content[0].input as it is)
NoToolResult == [none |-> TRUE, dict |-> <<>>]
ToolResult(d) == [none |-> FALSE, dict |-> d]

\* a call made to a collaborator, as recorded in trace: its name, the SQL (or
\* prompt) handed over, and what it returned
Call(name, arg, out) == [call |-> name, arg |-> arg, out |-> out]

\* _generate_sql_via_llm after call_claude returned tool_result:
\* (sql_or_none, cannot_answer), or the AttributeError of None.strip()
_generate_sql_via_llm(tool_result) ==
    IF tool_result.none
    THEN [raises |-> FALSE, sql |-> None, cannot |-> TRUE]
    ELSE LET s == get(tool_result.dict, "sql", Str(<<>>))
             cannot == get(tool_result.dict, "cannot_answer", FALSE)
         IN  IF cannot THEN [raises |-> FALSE, sql |-> None, cannot |-> TRUE]
             ELSE IF s.null THEN [raises |-> TRUE, sql |-> None, cannot |-> FALSE]
             ELSE IF strip(s.text) = <<>>
                  THEN [raises |-> FALSE, sql |-> None, cannot |-> TRUE]
             ELSE [raises |-> FALSE, sql |-> Str(strip(s.text)), cannot |-> FALSE]

\* _self_heal_sql after call_claude returned tool_result: fixed_sql_or_none,
\* or the AttributeError of None.strip()
_self_heal_sql(tool_result) ==
    IF tool_result.none
    THEN [raises |-> FALSE, sql |-> None]
    ELSE LET s == get(tool_result.dict, "sql", Str(<<>>))
             cannot == get(tool_result.dict, "cannot_answer", FALSE)
         IN  IF cannot THEN [raises |-> FALSE, sql |-> None]
             ELSE IF s.null THEN [raises |-> TRUE, sql |-> None]
             ELSE IF strip(s.text) = <<>> THEN [raises |-> FALSE, sql |-> None]
             ELSE [raises |-> FALSE, sql |-> Str(strip(s.text))]

\* the query template _keyword_fallback picks, with its LIMIT appended
_keyword_fallback(p, limit) ==
    <<"SELECT", " ", "x">> \o <<" ", "LIMIT", " ">> \o format_int(limit)

\* the calls of one validate_query(q) under the policy g that the
\* configuration file holds at the time: the policy is read (unless q is
\* empty, which is rejected before), then the text is checked against it
validate_calls(q, g) ==
    (IF q = <<>> THEN <<>> ELSE <<Call("load_guardrails", <<>>, g)>>)
    \o <<Call("validate_query", q, validate_query(q, g))>>

\* _run_query that hands its argument to the warehouse as it is
_run_query_unvalidated(q, cr, g, outcome) ==
    IF ~cr
    THEN [ok |-> FALSE, rows |-> <<>>, err |-> "Missing Databricks credentials",
          calls |-> <<>>]
    ELSE LET ex == <<Call("execute", q, NoResult)>>
         IN  CASE outcome = "rows" ->
                    [ok |-> TRUE, rows |-> <<"row">>, err |-> "", calls |-> ex]
               [] outcome = "empty" ->
                    [ok |-> TRUE, rows |-> <<>>, err |-> "", calls |-> ex]
               [] outcome = "error" ->
                    [ok |-> FALSE, rows |-> <<>>, err |-> "execute", calls |-> ex]

\* _run_query(q) with credentials set or not (cr), policy g and the
\* warehouse answering outcome: (ok, rows, err) and the calls it made
_run_query(q, cr, g, outcome) ==
    IF ~cr
    THEN [ok |-> FALSE, rows |-> <<>>, err |-> "Missing Databricks credentials",
          calls |-> <<>>]
    ELSE LET validated == validate_query(q, g)
             va == validate_calls(q, g)
             ex == va \o <<Call("execute", validated.sql, NoResult)>>
         IN  IF ~validated.ok
             THEN [ok |-> FALSE, rows |-> <<>>, err |-> "Validation", calls |-> va]
             ELSE CASE outcome = "rows" ->
                    [ok |-> TRUE, rows |-> <<"row">>, err |-> "", calls |-> ex]
               [] outcome = "empty" ->
                    [ok |-> TRUE, rows |-> <<>>, err |-> "", calls |-> ex]
               [] outcome = "error" ->
                    [ok |-> FALSE, rows |-> <<>>, err |-> "execute", calls |-> ex]

\* what cur.execute can do: return rows, return none, raise
Outcomes == {"rows", "empty", "error"}

\* the SQL texts the LLM collaborator answers with
FlowQueries ==
    { <<"SELECT", " ", "x">>,
      <<"select", " ", "x", "x", " ">>,
      <<"SELECT", " ", "*">>,
      <<"SELECT", " ", "x", ";", "DROP">>,
      <<"SELECT", " ", "x", " ", "limit", " ", "5", "0">>,
      <<"DROP">>,
      <<" ">>,
      <<>> }

\* the tool inputs the LLM collaborator answers with: complete ones, one
\* with a null sql, and partial ones
ToolDicts ==
    {[sql |-> v, cannot_answer |-> c] :
        v \in {None} \cup {Str(q) : q \in FlowQueries}, c \in BOOLEAN}
    \cup {[cannot_answer |-> FALSE]}
    \cup {[sql |-> Str(q)] : q \in FlowQueries}

ToolResults == {NoToolResult} \cup {ToolResult(d) : d \in ToolDicts}

Prompts == {<<"Orders", " ", "by", " ", "region">>, <<"customer", " ", "Email">>}

Init ==
    /\ raw = <<>>
    /\ result = NoResult
    /\ vpc = "unused"
    /\ again = NoResult
    /\ wrapped = <<>>
    /\ fenced = NoResult
    /\ guardrails \in Policies
    /\ pc = "start"
    /\ prompt \in Prompts
    /\ safe_mode \in BOOLEAN
    /\ creds \in BOOLEAN
    /\ chat_sql = <<>>
    /\ source_label = "unknown"
    /\ ok = FALSE
    /\ rows = <<>>
    /\ err = ""
    /\ healed_sql = None
    /\ healed = FALSE
    /\ trace = <<>>
    /\ chat_result = NoChatResult
    /\ ModulesIdle

\* lines 354-371: the prompt touches a blocked term
BlockPII ==
    /\ pc = "start"
    /\ HasBlockedTerm(strip(prompt))
    /\ chat_result' = [returned |-> TRUE, can_answer |-> FALSE,
                       assistant_text |-> "BLOCKED",
                       sql |-> <<"-- BLOCKED: sensitive/PII fields">>,
                       policy_note |-> [source |-> "blocked", limit |-> 0,
                                        safe_mode |-> FALSE, self_healed |-> FALSE],
                       preview_rows |-> <<>>, insight |-> ""]
    /\ pc' = "done"
    /\ UNCHANGED <<validator_vars, module_vars, guardrails, prompt, safe_mode, creds, chat_sql,
                   source_label, ok, rows, err, healed_sql, healed, trace>>

\* lines 373-389: Agent 1, the keyword fallback, and the LIMIT appended
Agent1 ==
    /\ pc = "start"
    /\ ~HasBlockedTerm(strip(prompt))
    /\ \E tool_result \in ToolResults :
         LET gen == _generate_sql_via_llm(tool_result)
             limit == chat_limit(safe_mode)
         IN  /\ trace' = Append(trace, Call("call_claude", strip(prompt), tool_result))
             /\ IF gen.raises
                THEN /\ pc' = "raised"
                     /\ UNCHANGED <<chat_sql, source_label>>
                ELSE /\ pc' = "run"
                     /\ IF gen.cannot \/ gen.sql.null
                        THEN /\ chat_sql' = _keyword_fallback(strip(prompt), limit)
                             /\ source_label' = "keyword_fallback"
                        ELSE /\ source_label' = "ai"
                             /\ chat_sql' =
                                  IF \E i \in 1..Len(gen.sql.text) :
                                        UpperLex(gen.sql.text[i]) = "LIMIT"
                                  THEN gen.sql.text
                                  ELSE gen.sql.text \o <<" ", "LIMIT", " ">>
                                       \o format_int(limit)
    /\ UNCHANGED <<validator_vars, module_vars, guardrails, prompt, safe_mode, creds, ok, rows,
                   err, healed_sql, healed, chat_result>>

\* RunQuery that goes on to the repair after any failure, whatever the
\* source of the query
RunQuery_heal_any ==
    /\ pc = "run"
    /\ \E outcome \in Outcomes :
         LET r == _run_query(chat_sql, creds, guardrails, outcome)
         IN  /\ ok' = r.ok
             /\ rows' = r.rows
             /\ err' = r.err
             /\ trace' = trace \o r.calls
             /\ pc' = IF ~r.ok THEN "heal" ELSE "respond"
    /\ UNCHANGED <<validator_vars, module_vars, guardrails, prompt, safe_mode, creds, chat_sql,
                   source_label, healed_sql, healed, chat_result>>

\* line 392: ok, rows, err = _run_query(sql), and the test of line 395
RunQuery ==
    /\ pc = "run"
    /\ \E outcome \in Outcomes :
         LET r == _run_query(chat_sql, creds, guardrails, outcome)
         IN  /\ ok' = r.ok
             /\ rows' = r.rows
             /\ err' = r.err
             /\ trace' = trace \o r.calls
             /\ pc' = IF ~r.ok /\ source_label = "ai" THEN "heal" ELSE "respond"
    /\ UNCHANGED <<validator_vars, module_vars, guardrails, prompt, safe_mode, creds, chat_sql,
                   source_label, healed_sql, healed, chat_result>>

\* line 396: healed_sql, heal_reason = _self_heal_sql(sql, err, p, safe_mode),
\* and the test of line 397
SelfHeal ==
    /\ pc = "heal"
    /\ \E tool_result \in ToolResults :
         LET h == _self_heal_sql(tool_result)
         IN  /\ trace' = Append(trace, Call("call_claude:heal", chat_sql, tool_result))
             /\ healed_sql' = h.sql
             /\ pc' = IF h.raises THEN "raised"
                      ELSE IF ~h.sql.null /\ h.sql.text # <<>> THEN "run_healed"
                      ELSE "respond"
    /\ UNCHANGED <<validator_vars, module_vars, guardrails, prompt, safe_mode, creds, chat_sql,
                   source_label, ok, rows, err, healed, chat_result>>

\* RunHealed that runs the healed query again while it fails
RunHealed_retry ==
    /\ pc = "run_healed"
    /\ \E outcome \in Outcomes :
         LET r == _run_query(healed_sql.text, creds, guardrails, outcome)
         IN  /\ trace' = trace \o r.calls
             /\ IF r.ok
                THEN /\ rows' = r.rows
                     /\ ok' = TRUE
                     /\ err' = ""
                     /\ chat_sql' = healed_sql.text
                     /\ source_label' = "ai (self-healed)"
                     /\ healed' = TRUE
                     /\ pc' = "respond"
                ELSE /\ UNCHANGED <<rows, ok, err, chat_sql, source_label, healed>>
                     /\ pc' = IF r.calls = <<>> THEN "respond" ELSE "run_healed"
    /\ UNCHANGED <<validator_vars, module_vars, guardrails, prompt, safe_mode, creds,
                   healed_sql, chat_result>>

\* RunHealed that asks for another repair when the healed query fails
RunHealed_reheal ==
    /\ pc = "run_healed"
    /\ \E outcome \in Outcomes :
         LET r == _run_query(healed_sql.text, creds, guardrails, outcome)
         IN  /\ trace' = trace \o r.calls
             /\ IF r.ok
                THEN /\ rows' = r.rows
                     /\ ok' = TRUE
                     /\ err' = ""
                     /\ chat_sql' = healed_sql.text
                     /\ source_label' = "ai (self-healed)"
                     /\ healed' = TRUE
                     /\ pc' = "respond"
                ELSE /\ UNCHANGED <<rows, ok, err, chat_sql, source_label, healed>>
                     /\ pc' = IF r.calls = <<>> THEN "respond" ELSE "heal"
    /\ UNCHANGED <<validator_vars, module_vars, guardrails, prompt, safe_mode, creds,
                   healed_sql, chat_result>>

\* lines 398-405: ok2, rows2, err2 = _run_query(healed_sql)
RunHealed ==
    /\ pc = "run_healed"
    /\ \E outcome \in Outcomes :
         LET r == _run_query(healed_sql.text, creds, guardrails, outcome)
         IN  /\ trace' = trace \o r.calls
             /\ IF r.ok
                THEN /\ rows' = r.rows
                     /\ ok' = TRUE
                     /\ err' = ""
                     /\ chat_sql' = healed_sql.text
                     /\ source_label' = "ai (self-healed)"
                     /\ healed' = TRUE
                ELSE UNCHANGED <<rows, ok, err, chat_sql, source_label, healed>>
    /\ pc' = "respond"
    /\ UNCHANGED <<validator_vars, module_vars, guardrails, prompt, safe_mode, creds,
                   healed_sql, chat_result>>

\* lines 407-435: the message, the insight and the ChatResult
Respond ==
    /\ pc = "respond"
    /\ \E insight \in {"", "insight"} :
         /\ (insight # "" => ok /\ rows # <<>>)
         /\ chat_result' =
              [returned |-> TRUE, can_answer |-> ok,
               assistant_text |->
                   IF ok /\ rows # <<>>
                   THEN IF healed THEN "rows returned, auto-corrected"
                        ELSE "rows returned"
                   ELSE IF ok THEN "0 rows" ELSE "Error",
               sql |-> chat_sql,
               policy_note |-> [source |-> source_label,
                                limit |-> chat_limit(safe_mode),
                                safe_mode |-> safe_mode, self_healed |-> healed],
               preview_rows |-> rows, insight |-> insight]
    /\ IF ok /\ rows # <<>>
       THEN trace' = Append(trace, Call("call_claude_text", <<>>, NoResult))
       ELSE UNCHANGED trace
    /\ pc' = "done"
    /\ UNCHANGED <<validator_vars, module_vars, guardrails, prompt, safe_mode, creds, chat_sql,
                   source_label, ok, rows, err, healed_sql, healed>>

Next == BlockPII \/ Agent1 \/ RunQuery \/ SelfHeal \/ RunHealed \/ Respond

Spec == Init /\ [][Next]_vars

(***************************************************************************)
(* The composer of the Chat page (pages/3_Chat.py)                         *)
(***************************************************************************)
\* the fields of the ChatResult dataclass
ChatResultFields == {"can_answer", "assistant_text", "sql", "policy_note",
                     "preview_rows", "insight"}

\* lines 198-206: the attributes of result read for the assistant message
AssistantMessageReads == <<"assistant_text", "preview_rows", "insight", "sql",
                           "healed", "heal_diff">>

\* lines 180-185: a prompt is submitted and its user message appended
Submit ==
    /\ page_pc = "idle"
    /\ pc = "start"
    /\ prompt # <<>>
    /\ chat_history' = Append(chat_history, "user")
    /\ page_pc' = "answering"
    /\ UNCHANGED <<validator_vars, guardrails, chat_vars, diff_text, agent_vars, factory_vars, cache_vars,
                   last_chat_sql>>

\* lines 188-194: the call of answer_chat
Answer ==
    /\ page_pc = "answering"
    /\ Next

\* lines 196-206: answer_chat returned; last_chat_sql is set, the
\* attributes of the result are read and the assistant message appended
AppendAssistant ==
    /\ page_pc = "answering"
    /\ pc = "done"
    /\ last_chat_sql' = Str(chat_result.sql)
    /\ IF \A i \in 1..Len(AssistantMessageReads) :
              AssistantMessageReads[i] \in ChatResultFields
       THEN /\ chat_history' = Append(chat_history, "assistant")
            /\ page_pc' = "rerun"
       ELSE /\ UNCHANGED chat_history
            /\ page_pc' = "raised"
    /\ UNCHANGED <<validator_vars, guardrails, chat_vars, diff_text, agent_vars, factory_vars, cache_vars>>

\* an exception that leaves answer_chat leaves the script too
Propagate ==
    /\ page_pc = "answering"
    /\ pc = "raised"
    /\ page_pc' = "raised"
    /\ UNCHANGED <<validator_vars, guardrails, chat_vars, diff_text, agent_vars, factory_vars, cache_vars,
                   chat_history, last_chat_sql>>

NextPage == Submit \/ Answer \/ AppendAssistant \/ Propagate

SpecPage == Init /\ [][NextPage]_vars

(***************************************************************************)
(* The SQL generation agent (agents/self_healing_agent.py)                 *)
(***************************************************************************)
\* the positions of the code fences in s
FencesIn(s) == {i \in 1..Len(s) : s[i] = Fence}

\* re.search(r"```(?:sql|SQL)?\s*(.*?)\s*```", raw_sql, DOTALL | IGNORECASE)
\* .group(1), for a text with two fences or more
block_group1(s) ==
    LET i == CHOOSE f \in FencesIn(s) : \A h \in FencesIn(s) : f <= h
        k == IF i + 1 <= Len(s) /\ UpperLex(s[i + 1]) = "SQL"
             THEN i + 2 ELSE i + 1
        m == Span(s, k, Whitespace)
        j == CHOOSE f \in FencesIn(s) :
                 f >= m /\ \A h \in FencesIn(s) : h >= m => f <= h
    IN  SubSeq(s, m, SpanBack(s, j - 1, Whitespace))

\* the statement keywords of the fallback expression of clean_sql
StatementKeywords == {"SELECT", "WITH", "CREATE", "UPDATE", "DELETE"}

\* r"(\b(?:SELECT|WITH|CREATE|UPDATE|DELETE)\b.*)" matches s at position i
StatementAt(s, i) ==
    /\ UpperLex(s[i]) \in StatementKeywords
    /\ Boundary(s, i - 1)
    /\ Boundary(s, i)

\* re.sub(r';\s*$', '', sql) on a stripped text
drop_last_semicolon(s) ==
    IF Len(s) >= 1 /\ s[Len(s)] = ";" THEN SubSeq(s, 1, Len(s) - 1) ELSE s

\* sql.split("```")[0]
before_fence(s) ==
    IF FencesIn(s) = {} THEN s
    ELSE SubSeq(s, 1, (CHOOSE f \in FencesIn(s) : \A h \in FencesIn(s) : f <= h) - 1)

\* clean_sql (lines 46-76); a reply is None or a text
clean_sql(raw_sql) ==
    IF raw_sql.null \/ raw_sql.text = <<>> THEN <<>>
    ELSE
    LET s == raw_sql.text
        starts == {i \in 1..Len(s) : StatementAt(s, i)}
        sql == IF Cardinality(FencesIn(s)) >= 2
               THEN strip(block_group1(s))
               ELSE IF starts # {}
               THEN strip(SubSeq(s, CHOOSE i \in starts : \A h \in starts : i <= h, Len(s)))
               ELSE strip(s)
    IN  strip(before_fence(drop_last_semicolon(sql)))

\* is_query_valid (query_validator.py lines 56-65): the text validate_query
\* returns is dropped
is_query_valid(sql, g) == validate_query(sql, g).ok

\* what get_database_schema_context returns: the DDL text, or a text that
\* begins with "Error" (lines 23-24 and 40-41)
SchemaContexts ==
    { <<"Here is the schema DDL for the relevant tables in this database:">>,
      <<"Error", ": No tables found in ">>,
      <<"Error", " fetching DDL: ">> }

ReplyFragments ==
    { <<"SELECT", " ", "x">>, LimLo, LimHi, <<Fence>>, <<";">>, <<"x", " ">>,
      <<" ", "DROP", " ">> }

\* the replies of the primary generator: nothing, or a text made of at most
\* max fragments
PrimaryReplies(max) ==
    {None} \cup
    {Str(Concat(fs)) : fs \in UNION {[1..n -> ReplyFragments] : n \in 0..max}}

\* the replies of call_claude_text: always a text, the error text included
FallbackReplies ==
    { <<>>,
      <<"SELECT", " ", "x">>,
      <<"SELECT", " ", "x", " ", "LIMIT", " ", "5", ";">>,
      <<"SELECT", " ", "x", " ", "limit", " ", "5", "0">>,
      <<"x", " ", Fence, "sql", "\n", "SELECT", " ", "x", "\n", Fence, " ", "x">>,
      <<"SELECT", " ", "*">>,
      <<"DROP", " ", "x">>,
      <<"Claude Error: ">> }

AGENT_MAX_RETRIES == 1

InitAgent ==
    /\ raw = <<>>
    /\ result = NoResult
    /\ vpc = "unused"
    /\ again = NoResult
    /\ wrapped = <<>>
    /\ fenced = NoResult
    /\ guardrails \in Policies
    /\ ChatIdle
    /\ DiffIdle
    /\ PageIdle
    /\ FactoryIdle
    /\ CacheIdle
    /\ agent_pc = "start"
    /\ schema_context = <<>>
    /\ sql_candidate = <<>>
    /\ attempt = 0
    /\ agent_result = NoAgentResult
    /\ agent_trace = <<>>

\* lines 92-98: the schema is fetched; an error text ends the call
FetchSchema ==
    /\ agent_pc = "start"
    /\ \E context \in SchemaContexts :
         /\ schema_context' = context
         /\ agent_trace' = Append(agent_trace,
                Call("get_database_schema_context", <<>>, context))
         /\ IF startswith(context, "Error")
            THEN /\ agent_result' = [agent_result EXCEPT !.error = context]
                 /\ agent_pc' = "returned"
            ELSE /\ UNCHANGED agent_result
                 /\ agent_pc' = "primary"
    /\ UNCHANGED <<validator_vars, guardrails, chat_vars, diff_text, page_vars,
                   factory_vars, cache_vars, sql_candidate, attempt>>

\* Primary that takes the first candidate without validating it
Primary_unchecked ==
    /\ agent_pc = "primary"
    /\ \E reply \in PrimaryReplies(MaxFrags) :
         LET candidate == clean_sql(reply)
         IN  /\ sql_candidate' = candidate
             /\ agent_trace' = Append(agent_trace,
                    Call("generate_sql_query_dbcs", <<>>, reply))
             /\ agent_result' = [agent_result EXCEPT !.sql = Str(candidate),
                                     !.valid = TRUE, !.source = "databricks_ai"]
             /\ agent_pc' = "returned"
    /\ UNCHANGED <<validator_vars, guardrails, chat_vars, diff_text, page_vars,
                   factory_vars, cache_vars, schema_context, attempt>>

\* lines 100-127: the primary generator, clean_sql, is_query_valid
Primary ==
    /\ agent_pc = "primary"
    /\ \E reply \in PrimaryReplies(MaxFrags) :
         LET candidate == clean_sql(reply)
             valid == is_query_valid(candidate, guardrails)
         IN  /\ sql_candidate' = candidate
             /\ agent_trace' = agent_trace \o
                    << Call("generate_sql_query_dbcs", <<>>, reply),
                       Call("is_query_valid", candidate, valid) >>
             /\ IF valid
                THEN /\ agent_result' = [agent_result EXCEPT
                                            !.sql = Str(candidate),
                                            !.valid = TRUE,
                                            !.source = "databricks_ai"]
                     /\ agent_pc' = "returned"
                ELSE /\ agent_result' = [agent_result EXCEPT !.retried = TRUE]
                     /\ agent_pc' = "fallback"
    /\ UNCHANGED <<validator_vars, guardrails, chat_vars, diff_text, page_vars,
                   factory_vars, cache_vars, schema_context, attempt>>

\* lines 129-159: one pass of the fallback loop, and the end of the call
\* when the loop is exhausted
Fallback ==
    /\ agent_pc = "fallback"
    /\ attempt < AGENT_MAX_RETRIES
    /\ \E reply \in FallbackReplies :
         LET candidate == clean_sql(Str(reply))
             valid == is_query_valid(candidate, guardrails)
         IN  /\ sql_candidate' = candidate
             /\ attempt' = attempt + 1
             /\ agent_trace' = agent_trace \o
                    << Call("call_claude", <<>>, Str(reply)),
                       Call("is_query_valid", candidate, valid) >>
             /\ IF valid
                THEN /\ agent_result' = [agent_result EXCEPT
                                            !.sql = Str(candidate),
                                            !.valid = TRUE,
                                            !.source = "claude_fallback"]
                     /\ agent_pc' = "returned"
                ELSE IF attempt + 1 < AGENT_MAX_RETRIES
                THEN /\ UNCHANGED agent_result
                     /\ agent_pc' = "fallback"
                ELSE /\ agent_result' = [agent_result EXCEPT !.error =
                            <<"Both generators failed to produce valid SQL.">>]
                     /\ agent_pc' = "returned"
    /\ UNCHANGED <<validator_vars, guardrails, chat_vars, diff_text, page_vars,
                   factory_vars, cache_vars, schema_context>>

NextAgent == FetchSchema \/ Primary \/ Fallback

SpecAgent == InitAgent /\ [][NextAgent]_vars

(***************************************************************************)
(* The governance check of an app spec (factory/spec_validator.py)         *)
(***************************************************************************)
\* a role's allowed_tables: the text "all", or a list of tables
AllTables == [all |-> TRUE, list |-> <<>>]
TableList(l) == [all |-> FALSE, list |-> l]

\* a configuration file: unreadable, or its parsed content
Unreadable == [readable |-> FALSE, content |-> <<>>]
Parsed(c) == [readable |-> TRUE, content |-> c]

\* x in list
InList(x, l) == \E i \in 1..Len(l) : l[i] = x

\* the most items in a list of the spec
MaxItems == 2

Lists(S, max) == UNION {[1..n -> S] : n \in 0..max}

TableNames == {"orders", "inventory", "payroll"}
ChartTypes == {"bar", "pie3d"}
UserRoles == {"viewer", "admin", "intern"}

\* the app specs: a name, and optionally the keys tables and charts
AppSpecs(max) ==
    LET base == ("app_name" :> "app")
    IN  {base @@ t @@ c :
            t \in {base} \cup {("tables" :> l) : l \in Lists(TableNames, max)},
            c \in {base} \cup {("charts" :> l) : l \in Lists(ChartTypes, max)}}

GuardrailFiles ==
    { Unreadable,
      Parsed([allowed_tables |-> <<"orders", "inventory">>,
              allowed_chart_types |-> <<"bar">>]),
      Parsed([allowed_chart_types |-> <<"bar">>]) }

RoleFiles ==
    { Unreadable,
      Parsed([viewer |-> [allowed_tables |-> TableList(<<"orders">>)],
              admin |-> [allowed_tables |-> AllTables]]),
      Parsed([admin |-> [description |-> "administrators"]]) }

\* a violation reason: which message, about which item
Violation(kind, item) == [kind |-> kind, item |-> item]

\* lines 21-25: the role configuration in force
role_config(roles, role) ==
    IF role \notin DOMAIN roles
    THEN get(roles, "viewer", [allowed_tables |-> TableList(<<>>)])
    ELSE roles[role]

\* lines 35-40: what the table loop does with table t
table_verdict(t, allowed_tables_global, allowed_tables_for_role) ==
    IF ~InList(t, allowed_tables_global) THEN "not_governed"
    ELSE IF ~allowed_tables_for_role.all
            /\ ~InList(t, allowed_tables_for_role.list) THEN "role"
    ELSE "valid"

\* validate_spec (lines 4-53) with the two configuration files as they are
validate_spec(spec_, role, files) ==
    IF ~files.guardrails.readable \/ ~files.roles.readable
    THEN [cleaned |-> spec_, violations |-> <<Violation("config", "")>>]
    ELSE
    LET guardrails_ == files.guardrails.content
        roles == files.roles.content
        for_role == get(role_config(roles, role), "allowed_tables", TableList(<<>>))
        tables_global == get(guardrails_, "allowed_tables", <<>>)
        charts_global == get(guardrails_, "allowed_chart_types", <<>>)
        Verdict(t) == table_verdict(t, tables_global, for_role)
        tables == get(spec_, "tables", <<>>)
        charts == get(spec_, "charts", <<>>)
        removed_t == SelectSeq(tables, LAMBDA t : Verdict(t) # "valid")
        removed_c == SelectSeq(charts, LAMBDA c : ~InList(c, charts_global))
        with_tables ==
            IF "tables" \in DOMAIN spec_
            THEN [spec_ EXCEPT !["tables"] =
                     SelectSeq(tables, LAMBDA t : Verdict(t) = "valid")]
            ELSE spec_
        with_charts ==
            IF "charts" \in DOMAIN spec_
            THEN [with_tables EXCEPT !["charts"] =
                     SelectSeq(charts, LAMBDA c : InList(c, charts_global))]
            ELSE with_tables
    IN  [cleaned |-> with_charts,
         violations |->
            (IF role \notin DOMAIN roles THEN <<Violation("role", role)>> ELSE <<>>)
            \o [i \in 1..Len(removed_t) |-> Violation(Verdict(removed_t[i]), removed_t[i])]
            \o [i \in 1..Len(removed_c) |-> Violation("chart", removed_c[i])]]

InitFactory ==
    /\ raw = <<>>
    /\ result = NoResult
    /\ vpc = "unused"
    /\ again = NoResult
    /\ wrapped = <<>>
    /\ fenced = NoResult
    /\ guardrails \in {[max_rows_returned |-> 10]}
    /\ ChatIdle
    /\ DiffIdle
    /\ PageIdle
    /\ AgentIdle
    /\ CacheIdle
    /\ vs_pc = "start"
    /\ spec \in AppSpecs(MaxItems)
    /\ user_role \in UserRoles
    /\ config_files \in [guardrails : GuardrailFiles, roles : RoleFiles]
    /\ cleaned_spec = <<>>
    /\ violations = <<>>

\* one call validate_spec(spec, user_role)
ValidateSpec ==
    /\ vs_pc = "start"
    /\ LET out == validate_spec(spec, user_role, config_files)
       IN  /\ cleaned_spec' = out.cleaned
           /\ violations' = out.violations
    /\ vs_pc' = "returned"
    /\ UNCHANGED <<validator_vars, guardrails, chat_vars, diff_text, page_vars,
                   agent_vars, cache_vars, spec, user_role, config_files>>

NextFactory == ValidateSpec

SpecFactory == InitFactory /\ [][NextFactory]_vars

(***************************************************************************)
(* The schema cache (core/schema_cache.py)                                 *)
(***************************************************************************)
CACHE_TTL == 3600

\* the most calls and clock ticks of a run
MaxSteps == 5

\* what get_schema_metadata("workspace", "governed") returns: a dict with an
\* entry for each table, never an empty one
SchemaVersions == {[sales |-> "v1"], [sales |-> "v2"]}

\* the seconds that pass between two calls
Delays == {1, CACHE_TTL, CACHE_TTL + 1}

\* an entry of cache_log
CacheEvent(op, fetched, returned) ==
    [op |-> op, at |-> now, fetched |-> fetched, returned |-> returned]

InitCache ==
    /\ raw = <<>>
    /\ result = NoResult
    /\ vpc = "unused"
    /\ again = NoResult
    /\ wrapped = <<>>
    /\ fenced = NoResult
    /\ guardrails \in {[max_rows_returned |-> 10]}
    /\ ChatIdle
    /\ DiffIdle
    /\ PageIdle
    /\ AgentIdle
    /\ FactoryIdle
    /\ CacheIdle

\* time passes
Tick ==
    /\ Len(cache_log) < MaxSteps
    /\ \E d \in Delays : now' = now + d
    /\ cache_log' = Append(cache_log, CacheEvent("tick", FALSE, <<>>))
    /\ UNCHANGED <<validator_vars, guardrails, chat_vars, diff_text, page_vars,
                   agent_vars, factory_vars, _CACHE, _CACHE_TIMESTAMP>>

\* get_cached_schema that also refetches a cache exactly CACHE_TTL old
GetCachedSchema_ttl_inclusive ==
    /\ Len(cache_log) < MaxSteps
    /\ IF DOMAIN _CACHE = {} \/ (now - _CACHE_TIMESTAMP) >= CACHE_TTL
       THEN \E fresh \in SchemaVersions :
               /\ _CACHE' = fresh
               /\ _CACHE_TIMESTAMP' = now
               /\ cache_log' = Append(cache_log, CacheEvent("get", TRUE, fresh))
       ELSE /\ UNCHANGED <<_CACHE, _CACHE_TIMESTAMP>>
            /\ cache_log' = Append(cache_log, CacheEvent("get", FALSE, _CACHE))
    /\ UNCHANGED <<validator_vars, guardrails, chat_vars, diff_text, page_vars,
                   agent_vars, factory_vars, now>>

\* get_cached_schema (lines 8-20)
GetCachedSchema ==
    /\ Len(cache_log) < MaxSteps
    /\ IF DOMAIN _CACHE = {} \/ (now - _CACHE_TIMESTAMP) > CACHE_TTL
       THEN \E fresh \in SchemaVersions :
               /\ _CACHE' = fresh
               /\ _CACHE_TIMESTAMP' = now
               /\ cache_log' = Append(cache_log, CacheEvent("get", TRUE, fresh))
       ELSE /\ UNCHANGED <<_CACHE, _CACHE_TIMESTAMP>>
            /\ cache_log' = Append(cache_log, CacheEvent("get", FALSE, _CACHE))
    /\ UNCHANGED <<validator_vars, guardrails, chat_vars, diff_text, page_vars,
                   agent_vars, factory_vars, now>>

\* invalidate_cache (lines 22-26)
InvalidateCache ==
    /\ Len(cache_log) < MaxSteps
    /\ _CACHE' = <<>>
    /\ _CACHE_TIMESTAMP' = 0
    /\ cache_log' = Append(cache_log, CacheEvent("invalidate", FALSE, <<>>))
    /\ UNCHANGED <<validator_vars, guardrails, chat_vars, diff_text, page_vars,
                   agent_vars, factory_vars, now>>

NextCache == Tick \/ GetCachedSchema \/ InvalidateCache

SpecCache == InitCache /\ [][NextCache]_vars

(***************************************************************************)
(* One call of sql_diff                                                    *)
(***************************************************************************)
DiffFragments == { <<"SELECT", " ", "x">>, <<"x">>, <<"\n">>, <<" ">> }

\* the texts made of at most max fragments
DiffTexts(max) ==
    {Concat(fs) : fs \in UNION {[1..n -> DiffFragments] : n \in 0..max}}

InitDiff ==
    /\ raw = <<>>
    /\ result = NoResult
    /\ vpc = "unused"
    /\ again = NoResult
    /\ wrapped = <<>>
    /\ fenced = NoResult
    /\ guardrails \in {[max_rows_returned |-> 10]}
    /\ pc = "diff"
    /\ prompt = <<>>
    /\ safe_mode = FALSE
    /\ creds = FALSE
    /\ chat_sql \in DiffTexts(MaxFrags)
    /\ source_label = "unknown"
    /\ ok = FALSE
    /\ rows = <<>>
    /\ err = ""
    /\ healed_sql \in {Str(t) : t \in DiffTexts(MaxFrags)}
    /\ healed = FALSE
    /\ trace = <<>>
    /\ chat_result = NoChatResult
    /\ DiffIdle
    /\ PageIdle
    /\ AgentIdle
    /\ FactoryIdle
    /\ CacheIdle

\* one call sql_diff(original_sql, healed_sql)
Diff ==
    /\ pc = "diff"
    /\ diff_text' = sql_diff(chat_sql, healed_sql.text)
    /\ pc' = "diffed"
    /\ UNCHANGED <<validator_vars, guardrails, prompt, safe_mode, creds, chat_sql,
                   source_label, ok, rows, err, healed_sql, healed, trace,
                   chat_result, page_vars, agent_vars, factory_vars, cache_vars>>

NextDiff == Diff

SpecDiff == InitDiff /\ [][NextDiff]_vars

(***************************************************************************)
(* The configuration file changing under a running process                 *)
(***************************************************************************)
\* config/guardrails.yaml is rewritten while answer_chat is running;
\* load_guardrails reads the file anew at every call
ConfigChange ==
    /\ pc \in {"start", "run", "heal", "run_healed", "respond"}
    /\ guardrails' \in Policies \ {guardrails}
    /\ UNCHANGED <<validator_vars, module_vars, chat_vars>>

NextConfig == Next \/ ConfigChange

SpecConfig == Init /\ [][NextConfig]_vars

(***************************************************************************)
(* The paths to the warehouse (core/databricks_connect.py,                 *)
(* factory/registry.py, pages/2_Dashboard.py, ui/chat_engine.py)           *)
(***************************************************************************)
\* str.replace("'", "''")
escape_quotes(s) ==
    Concat([i \in 1..Len(s) |-> IF s[i] = "'" THEN <<"'", "'">> ELSE <<s[i]>>])

\* execute_query(sql) on a cache miss, with the connection settings present
\* or not (cr) and the warehouse answering outcome: the DataFrame it returns
\* and the calls it made
execute_query(q, cr, g, outcome) ==
    LET validated == validate_query(q, g)
        va == validate_calls(q, g)
        ex == va \o <<Call("execute", validated.sql, NoResult)>>
    IN  IF ~validated.ok
        THEN [ok |-> FALSE, rows |-> <<>>, err |-> validated.error, calls |-> va]
        ELSE IF ~cr
        THEN [ok |-> FALSE, rows |-> <<>>, err |-> "connect", calls |-> va]
        ELSE CASE outcome = "rows" ->
                    [ok |-> TRUE, rows |-> <<"row">>, err |-> "", calls |-> ex]
               [] outcome = "empty" ->
                    [ok |-> TRUE, rows |-> <<>>, err |-> "", calls |-> ex]
               [] outcome = "error" ->
                    [ok |-> FALSE, rows |-> <<>>, err |-> "execute", calls |-> ex]

\* the tables get_schema_metadata describes (the first two of six)
SchemaTables == <<"sales", "customers">>

\* f"DESCRIBE {catalog}.{schema}.{t}"
describe_sql(t) == <<"DESCRIBE", " ", "workspace", ".", "governed", ".", t>>

\* f"SELECT * FROM workspace.audit.query_log ORDER BY timestamp DESC LIMIT {limit}"
audit_feed_sql(limit) ==
    <<"SELECT", " ", "*", " ", "FROM", " ", "workspace", ".", "audit", ".",
      "query_log", " ", "ORDER", " ", "BY", " ", "timestamp", " ", "DESC",
      " ", "LIMIT", " ">> \o format_int(limit)

\* the insert_sql of log_query for a payload (of its twelve columns, the two
\* that carry free text: nl_input and generated_sql)
log_insert_sql(payload) ==
    <<"INSERT", " ", "INTO", " ", "workspace", ".", "audit", ".", "query_log",
      " ", "VALUES", " ", "(", "'">>
    \o escape_quotes(get(payload, "nl_input", <<>>)) \o <<"'", ",", " ", "'">>
    \o escape_quotes(get(payload, "generated_sql", <<>>)) \o <<"'", ")">>

\* the insert_sql of register_app (of its four columns, app_name)
registry_insert_sql(app_name) ==
    <<"INSERT", " ", "INTO", " ", "workspace", ".", "audit", ".",
      "app_registry", " ", "VALUES", " ", "(", "'">>
    \o app_name \o <<"'", ")">>

\* run_query of the dashboard page
run_query(q, cr, g, outcome) == _run_query(q, cr, g, outcome)

\* the SQL texts handed to the query functions
WarehouseQueries ==
    FlowQueries \cup {<<"WITH", " ", "x", " ", "LIMIT", " ", "5">>,
                      <<"x", "'", ";", "DROP">>}

\* the audit payloads: the one pages/3_Chat.py builds from the answer's SQL,
\* and one that carries the question only
Payloads ==
    {[generated_sql |-> q] : q \in WarehouseQueries}
    \cup {[nl_input |-> p] : p \in Prompts}

InitWarehouse ==
    /\ raw = <<>>
    /\ result = NoResult
    /\ vpc = "unused"
    /\ again = NoResult
    /\ wrapped = <<>>
    /\ fenced = NoResult
    /\ guardrails \in Policies
    /\ pc = "ready"
    /\ prompt = <<>>
    /\ safe_mode = FALSE
    /\ creds \in BOOLEAN
    /\ chat_sql = <<>>
    /\ source_label = "unknown"
    /\ ok = FALSE
    /\ rows = <<>>
    /\ err = ""
    /\ healed_sql = None
    /\ healed = FALSE
    /\ trace = <<>>
    /\ chat_result = NoChatResult
    /\ ModulesIdle

\* what a query function leaves behind: its frame and the calls it made
Returned(r) ==
    /\ ok' = r.ok
    /\ rows' = r.rows
    /\ err' = r.err
    /\ trace' = trace \o r.calls
    /\ pc' = "returned"
    /\ UNCHANGED <<validator_vars, module_vars, guardrails, prompt, safe_mode, creds, chat_sql,
                   source_label, healed_sql, healed, chat_result>>

\* core/databricks_connect.py: execute_query(sql)
ExecuteQuery ==
    /\ pc = "ready"
    /\ \E q \in WarehouseQueries, outcome \in Outcomes :
          Returned(execute_query(q, creds, guardrails, outcome))

\* core/databricks_connect.py: get_audit_feed(limit)
GetAuditFeed ==
    /\ pc = "ready"
    /\ \E limit \in {5, 50}, outcome \in Outcomes :
          Returned(execute_query(audit_feed_sql(limit), creds, guardrails, outcome))

\* core/databricks_connect.py: get_schema_metadata(catalog, schema), one
\* execute_query per table
GetSchemaMetadata ==
    /\ pc = "ready"
    /\ \E o1 \in Outcomes, o2 \in Outcomes :
          LET r1 == execute_query(describe_sql(SchemaTables[1]), creds, guardrails, o1)
              r2 == execute_query(describe_sql(SchemaTables[2]), creds, guardrails, o2)
          IN  Returned([ok |-> r1.ok /\ r2.ok, rows |-> r1.rows \o r2.rows,
                        err |-> r2.err, calls |-> r1.calls \o r2.calls])

\* core/databricks_connect.py: log_query(payload); a failure of the insert
\* is printed and swallowed
LogQuery ==
    /\ pc = "ready"
    /\ \E payload \in Payloads :
          Returned([ok |-> FALSE, rows |-> <<>>, err |-> "",
                    calls |-> IF creds
                              THEN <<Call("execute", log_insert_sql(payload), NoResult)>>
                              ELSE <<>>])

\* factory/registry.py: register_app(creator_role, spec, ...); a failure of
\* the insert is logged and swallowed
RegisterApp ==
    /\ pc = "ready"
    /\ \E app_name \in {<<"sales">>, <<"x", "'", ")", ";", "DROP">>} :
          Returned([ok |-> FALSE, rows |-> <<>>, err |-> "",
                    calls |-> IF creds
                              THEN <<Call("execute", registry_insert_sql(app_name), NoResult)>>
                              ELSE <<>>])

\* pages/2_Dashboard.py: run_query(sql)
DashboardRunQuery ==
    /\ pc = "ready"
    /\ \E q \in WarehouseQueries, outcome \in Outcomes :
          Returned(run_query(q, creds, guardrails, outcome))

\* ui/chat_engine.py: _run_query(sql)
ChatRunQuery ==
    /\ pc = "ready"
    /\ \E q \in WarehouseQueries, outcome \in Outcomes :
          Returned(_run_query(q, creds, guardrails, outcome))

NextWarehouse ==
    \/ ExecuteQuery
    \/ GetAuditFeed
    \/ GetSchemaMetadata
    \/ LogQuery
    \/ RegisterApp
    \/ DashboardRunQuery
    \/ ChatRunQuery

SpecWarehouse == InitWarehouse /\ [][NextWarehouse]_vars

(***************************************************************************)
(* Properties of validate_query                                            *)
(***************************************************************************)
\* pattern p occurs in text t as a whole word: an occurrence whose word ends
\* are not continued by a word character
ContainsWord(p, t) ==
    \E i \in 1..(Len(t) - Len(p) + 1) :
        /\ Len(p) > 0
        /\ SubSeq(t, i, i + Len(p) - 1) = p
        /\ (p[1] \in WordLex => ~IsWordAt(t, i - 1))
        /\ (p[Len(p)] \in WordLex => ~IsWordAt(t, i + Len(p)))

\* some banned pattern of policy g occurs in t as a whole word, in any case
ContainsBanned(g, t) ==
    \E i \in 1..Len(banned_patterns(g)) :
        ContainsWord(banned_patterns(g)[i], upper(t))

\* the policy's patterns are upper-case keywords (or the wildcard entry), none
\* of them the LIMIT keyword that the validator itself writes
CanonicalPolicy(g) ==
    \A i \in 1..Len(banned_patterns(g)) :
        LET p == banned_patterns(g)[i]
        IN  upper(p) = p /\ \A k \in 1..Len(p) : p[k] # "LIMIT"

\* the input passes the statement-shape check
ShapeOk(sql0) ==
    LET u == strip(upper(strip_close_fence(strip_open_fence(sql0))))
    IN  startswith(u, "SELECT") \/ startswith(u, "WITH")

\* the input has SELECT, whitespace and a star
HasSelectStar(sql0) ==
    search_select_star(strip(upper(strip_close_fence(strip_open_fence(sql0)))))

\* C1 (as claimed): an accepted query contains no banned pattern as a whole
\* word, and every input that contains one is rejected with the
\* banned-pattern rejection (the wildcard rejection counted as one).
C1_Original ==
    (vpc = "validated" /\ CanonicalPolicy(guardrails)) =>
        /\ result.ok => ~ContainsBanned(guardrails, result.sql)
        /\ ContainsBanned(guardrails, raw) =>
              ~result.ok /\ result.error \in {BannedDetected, StarNotAllowed}

\* C1 (amended): for a policy of upper-case keywords other than LIMIT, an
\* accepted query contains no banned pattern as a whole word anywhere, also
\* not after a semicolon; every input that contains one is rejected, with
\* the banned-pattern (or wildcard) rejection if it passes the
\* statement-shape check and with the not-a-SELECT rejection if it does not.
C1_NoBannedAccepted ==
    (vpc = "validated" /\ CanonicalPolicy(guardrails)) =>
        /\ result.ok => ~ContainsBanned(guardrails, result.sql)
        /\ ContainsBanned(guardrails, raw) =>
              /\ ~result.ok
              /\ IF ShapeOk(raw)
                 THEN \/ result.error = StarNotAllowed
                      \/ /\ result.error = BannedDetected
                         /\ ContainsWord(result.pattern, upper(raw))
                 ELSE result.error = OnlySelect

\* C1 witness: a statement chained after a semicolon is rejected for DROP
C1_Witness ==
    /\ vpc = "validated"
    /\ CanonicalPolicy(guardrails)
    /\ ~result.ok
    /\ result.error = BannedDetected
    /\ result.pattern = <<"DROP">>
    /\ \E i, j \in 1..Len(raw) : i < j /\ raw[i] = ";" /\ raw[j] = "DROP"

\* the LIMIT clauses of a text: the positions of a whole-word LIMIT (any
\* case) followed by whitespace and an integer
LimitClauses(t) == {i \in 1..Len(t) : LimitMatchAt(upper(t), i)}

\* C2 (as claimed): a returned query carries no LIMIT clause above the cap:
\* every LIMIT clause in it, also when the input had several, has a value of
\* at most max_rows.
C2_NoLimitAboveCap ==
    (vpc = "validated" /\ result.ok) =>
        \A i \in LimitClauses(result.sql) :
            int(limit_group1(upper(result.sql), i)) <= max_rows(guardrails)

\* C3 (as claimed): whatever the policy, an input that passes the shape check,
\* matches no banned keyword and has SELECT followed by a star is rejected
\* with the wildcard rejection.
C3_WildcardAnyPolicy ==
    ( /\ vpc = "validated"
      /\ ShapeOk(raw)
      /\ HasSelectStar(raw)
      /\ \A i \in 1..Len(banned_patterns(guardrails)) :
            \/ banned_patterns(guardrails)[i] = SelectStar
            \/ ~search_banned(banned_patterns(guardrails)[i], upper(raw)) )
    => (~result.ok /\ result.error = StarNotAllowed)

\* a whole-word SELECT of t is followed, after any whitespace or none, by *
BareStar(t) ==
    \E i \in 1..Len(t) :
        /\ UpperLex(t[i]) = "SELECT"
        /\ ~IsWordAt(t, i - 1)
        /\ LET j == Span(t, i + 1, Whitespace)
           IN  j <= Len(t) /\ t[j] = "*"

\* C4 (as claimed): under a policy that lists the wildcard entry, no returned
\* query has a SELECT followed by *, whatever whitespace separates the two.
C4_NoBareStar ==
    ( /\ vpc = "validated"
      /\ result.ok
      /\ \E i \in 1..Len(banned_patterns(guardrails)) :
            banned_patterns(guardrails)[i] = SelectStar )
    => ~BareStar(result.sql)

\* the input without its markdown code fences
Unfenced(sql0) == strip_close_fence(strip_open_fence(sql0))

\* policy g lists the keyword kw
Bans(g, kw) ==
    \E i \in 1..Len(banned_patterns(g)) : banned_patterns(g)[i] = <<kw>>

\* C13 (as claimed): every input that, unfenced and trimmed, does not start
\* with SELECT or WITH in any case is rejected with the not-a-SELECT
\* rejection.
C13_Original ==
    (vpc = "validated" /\ ~ShapeOk(raw)) =>
        (~result.ok /\ result.error = OnlySelect)

\* C13 (amended): every non-empty input that, unfenced and trimmed, does not
\* start with SELECT or WITH in any case is rejected with the not-a-SELECT
\* rejection, also when it holds a banned keyword; the empty string is
\* rejected with the empty-input rejection.
C13_NotSelectRejected ==
    (vpc = "validated" /\ ~ShapeOk(raw)) =>
        /\ ~result.ok
        /\ result.error = IF raw = <<>> THEN EmptyQuery ELSE OnlySelect

\* C13 witness: a fenced input that holds a banned DROP and does not start
\* with SELECT or WITH is rejected as not a SELECT
C13_Witness ==
    /\ vpc = "validated"
    /\ ~ShapeOk(raw)
    /\ Bans(guardrails, "DROP")
    /\ \E i \in 1..Len(raw) : raw[i] = "DROP"
    /\ \E i \in 1..Len(raw) : raw[i] = Fence
    /\ ~result.ok
    /\ result.error = OnlySelect

\* C14 (as claimed): every input that is empty or made of whitespace only is
\* rejected with the empty-input rejection and no other.
C14_BlankIsEmpty ==
    (vpc = "validated" /\ \A i \in 1..Len(raw) : raw[i] \in Whitespace) =>
        (~result.ok /\ result.error = EmptyQuery)

\* C15 (as claimed): every query that does not begin with SELECT, also one
\* that begins with WITH, is rejected with the only-SELECT rejection.
C15_OnlySelectKeyword ==
    ( /\ vpc = "validated"
      /\ raw # <<>>
      /\ ~startswith(strip(upper(Unfenced(raw))), "SELECT") )
    => (~result.ok /\ result.error = OnlySelect)

\* text t without its trailing semicolons and whitespace
TrimTail(t) ==
    LET tail == Whitespace \cup {";"}
    IN  SubSeq(t, 1, CHOOSE n \in 0..Len(t) :
                        /\ n = 0 \/ t[n] \notin tail
                        /\ \A k \in (n + 1)..Len(t) : t[k] \in tail)

\* the clause the validator appends under policy g
CapClause(g) == <<" ", "LIMIT", " ">> \o format_int(max_rows(g))

\* C16 (as claimed): an accepted query without a LIMIT clause is returned as
\* the input, its trailing semicolons and whitespace removed and
\* " LIMIT max_rows" appended, otherwise verbatim.
C16_Original ==
    (vpc = "validated" /\ result.ok /\ LimitClauses(raw) = {}) =>
        result.sql = TrimTail(raw) \o CapClause(guardrails)

\* C16 (amended): an accepted query without a LIMIT clause is returned as the
\* input without its code fences, its trailing semicolons and whitespace
\* removed and " LIMIT max_rows" appended, otherwise verbatim (leading
\* whitespace and letter case included).
C16_AppendsCap ==
    (vpc = "validated" /\ result.ok /\ LimitClauses(Unfenced(raw)) = {}) =>
        result.sql = TrimTail(Unfenced(raw)) \o CapClause(guardrails)

\* C16 witness: an accepted fenced query without LIMIT that ends in a
\* semicolon
C16_Witness ==
    /\ vpc = "validated"
    /\ result.ok
    /\ LimitClauses(Unfenced(raw)) = {}
    /\ raw[1] = Fence
    /\ raw[Len(raw)] = ";"

\* the value of the LIMIT clause at position i of t
ClauseValue(t, i) == int(limit_group1(upper(t), i))

\* the first LIMIT clause of t (t has one)
FirstClause(t) ==
    CHOOSE i \in LimitClauses(t) : \A h \in LimitClauses(t) : i <= h

RECURSIVE ClampExceeding(_, _, _)
\* text s from position i on, the digits of every LIMIT clause above cap
\* replaced by cap and nothing else changed
ClampExceeding(s, i, cap) ==
    IF i > Len(s) THEN <<>>
    ELSE IF i \in LimitClauses(s)
         THEN LET j == Span(s, i + 1, Whitespace)
                  k == Span(s, j, Digits)
              IN  (IF ClauseValue(s, i) > cap
                   THEN SubSeq(s, i, j - 1) \o format_int(cap)
                   ELSE SubSeq(s, i, k - 1))
                  \o ClampExceeding(s, k, cap)
         ELSE <<s[i]>> \o ClampExceeding(s, i + 1, cap)

\* C17 (as claimed): when the LIMIT clause of an accepted query exceeds
\* max_rows, the returned text differs from the unfenced input only in the
\* digits of the exceeding clauses; a LIMIT clause that was within the bound
\* and all other text are unchanged.
C17_OnlyExceedingRewritten ==
    ( /\ vpc = "validated"
      /\ result.ok
      /\ LimitClauses(Unfenced(raw)) # {}
      /\ ClauseValue(Unfenced(raw), FirstClause(Unfenced(raw)))
            > max_rows(guardrails) )
    => result.sql = ClampExceeding(Unfenced(raw), 1, max_rows(guardrails))

\* C18: an accepted query whose LIMIT clause (the first, when it has several)
\* is within max_rows is returned as the unfenced input, unchanged and in its
\* original letter case.
C18_WithinBoundUntouched ==
    ( /\ vpc = "validated"
      /\ result.ok
      /\ LimitClauses(Unfenced(raw)) # {}
      /\ ClauseValue(Unfenced(raw), FirstClause(Unfenced(raw)))
            <= max_rows(guardrails) )
    => result.sql = Unfenced(raw)

\* C18 witness: a fenced query with a lower-case limit within the cap is
\* returned with the lower-case keyword
C18_Witness ==
    /\ vpc = "validated"
    /\ result.ok
    /\ raw[1] = Fence
    /\ \E i \in LimitClauses(result.sql) :
          /\ result.sql[i] = "limit"
          /\ ClauseValue(result.sql, i) <= max_rows(guardrails)

\* C19 (as claimed): validating an accepted query's result again accepts it
\* and returns it unchanged.
C19_FixedPoint ==
    (vpc = "revalidated" /\ CanonicalPolicy(guardrails)) =>
        (again.ok /\ again.sql = result.sql)

\* every occurrence of pattern p in text t is part of a longer word
EmbeddedOnly(p, t) ==
    \A i \in 1..(Len(t) - Len(p) + 1) :
        SubSeq(t, i, i + Len(p) - 1) = p =>
            (IsWordAt(t, i - 1) \/ IsWordAt(t, i + Len(p)))

\* C20: a query in which the banned keywords occur only as parts of longer
\* identifiers is not rejected with the banned-pattern rejection.
C20_WholeWordOnly ==
    ( /\ vpc = "validated"
      /\ \A i \in 1..Len(banned_patterns(guardrails)) :
            \/ banned_patterns(guardrails)[i] = SelectStar
            \/ EmbeddedOnly(banned_patterns(guardrails)[i], upper(raw)) )
    => ~(~result.ok /\ result.error = BannedDetected)

\* C20 witness: an accepted query that holds the banned DROP only as the
\* head of a longer column name
C20_Witness ==
    /\ vpc = "validated"
    /\ result.ok
    /\ Bans(guardrails, "DROP")
    /\ \E i \in 2..(Len(raw) - 1) :
          raw[i - 1] = " " /\ raw[i] = "DROP" /\ raw[i + 1] = "x"

\* C21 (as claimed): a query wrapped in a code fence (with or without the
\* sql tag, with whitespace around the fences) has the outcome of the
\* unfenced query: the same rejection or the same returned SQL, with no
\* fence left in it.
C21_Original ==
    vpc = "fenced" =>
        /\ fenced = result
        /\ \A i \in 1..Len(fenced.sql) : fenced.sql[i] # Fence

\* C21 (amended): a query wrapped in a code fence is accepted exactly when
\* the unfenced query is and is rejected for the same reason; the returned
\* SQL is that of the unfenced query without the query's own leading and
\* trailing whitespace (the same SQL when the query has none), with no fence
\* left in it; a fence around nothing or around whitespace is rejected as
\* not a SELECT.
C21_FenceTransparent ==
    vpc = "fenced" =>
        IF strip(raw) = <<>>
        THEN ~fenced.ok /\ fenced.error = OnlySelect
        ELSE /\ fenced.ok = result.ok
             /\ fenced.error = result.error
             /\ fenced.pattern = result.pattern
             /\ fenced.sql = strip(result.sql)
             /\ (raw = strip(raw) => fenced = result)
             /\ \A i \in 1..Len(fenced.sql) : fenced.sql[i] # Fence

\* C21 witness: a query ending in a semicolon, wrapped in a tagged fence with
\* whitespace around it, is accepted with the SQL of the unfenced query
C21_Witness ==
    /\ vpc = "fenced"
    /\ fenced.ok
    /\ fenced = result
    /\ raw[Len(raw)] = ";"
    /\ wrapped[1] = " "
    /\ wrapped[3] = "SQL"

\* what the declared check order reports for input sql0 under policy g:
\* empty input, then statement shape, then the wildcard, then the banned
\* keywords in the policy's order
DeclaredRejection(sql0, g) ==
    LET u == strip(upper(Unfenced(sql0)))
        banned == banned_patterns(g)
        hits == {i \in 1..Len(banned) :
                    banned[i] # SelectStar /\ ContainsWord(banned[i], u)}
    IN  IF sql0 = <<>> THEN Reject(EmptyQuery, <<>>)
        ELSE IF ~ShapeOk(sql0) THEN Reject(OnlySelect, <<>>)
        ELSE IF (\E i \in 1..Len(banned) : banned[i] = SelectStar)
                /\ search_select_star(u)
        THEN Reject(StarNotAllowed, <<>>)
        ELSE IF hits # {}
        THEN Reject(BannedDetected,
                    banned[CHOOSE i \in hits : \A h \in hits : i <= h])
        ELSE NoResult

\* C25 (as claimed): the rejection reported follows the declared order:
\* empty input, statement shape, wildcard, then the banned keywords in the
\* policy's order; an input with a wildcard and a banned keyword gets the
\* wildcard rejection.
C25_DeclaredOrder ==
    (vpc = "validated" /\ ~result.ok) =>
        result = DeclaredRejection(raw, guardrails)

(***************************************************************************)
(* Properties of sql_diff                                                  *)
(***************************************************************************)
\* the diff begins with the three header lines of a unified diff
HasDiffHeaders(d) ==
    /\ Len(d) >= 5
    /\ d[1] = "--- Original SQL (failed)"
    /\ d[2] = "\n"
    /\ d[3] = "+++ Healed SQL (succeeded)"
    /\ d[4] = "\n"
    /\ d[5] = "@@ -"

\* line l stands in diff d, whole, after one of the marks
HasLine(d, l, marks) ==
    \E i \in 1..Len(d) :
        /\ d[i] \in marks
        /\ i = 1 \/ d[i - 1] = "\n"
        /\ SubSeq(d, i + 1, i + Len(l)) = l
        /\ i + Len(l) = Len(d) \/ d[i + Len(l) + 1] = "\n"

AgentCalls(name) == {i \in 1..Len(agent_trace) : agent_trace[i].call = name}

\* the positions of the is_query_valid calls that answered v
Verdicts(v) == {i \in AgentCalls("is_query_valid") : agent_trace[i].out = v}

\* C26: generate_safe_sql returns valid = true only with an sql that
\* is_query_valid accepted; the Claude fallback is called only after the
\* primary candidate failed validation, and at most MAX_RETRIES times; when
\* the schema fetch fails no generator is called; and when every candidate
\* fails validation the result has sql None, valid false and an error text.
C26_ValidatedOrNone ==
    /\ \A i \in AgentCalls("call_claude") :
          \E j \in AgentCalls("generate_sql_query_dbcs") :
              /\ j + 1 < i
              /\ j + 1 \in Verdicts(FALSE)
    /\ Cardinality(AgentCalls("call_claude")) <= AGENT_MAX_RETRIES
    /\ startswith(schema_context, "Error") =>
          /\ AgentCalls("generate_sql_query_dbcs") = {}
          /\ AgentCalls("call_claude") = {}
    /\ agent_pc = "returned" =>
          /\ agent_result.valid =>
                /\ ~agent_result.sql.null
                /\ \E i \in Verdicts(TRUE) :
                      /\ i = Len(agent_trace)
                      /\ agent_trace[i].arg = agent_result.sql.text
                /\ validate_query(agent_result.sql.text, guardrails).ok
          /\ Verdicts(TRUE) = {} =>
                /\ agent_result.sql = None
                /\ ~agent_result.valid
                /\ agent_result.error # <<>>
                /\ agent_result.error # <<"None">>

\* C26 witness: the primary candidate failed validation and the fallback's
\* candidate, taken out of a fenced reply, was returned as valid
C26_Witness ==
    /\ agent_pc = "returned"
    /\ agent_result.valid
    /\ agent_result.source = "claude_fallback"
    /\ Verdicts(FALSE) # {}
    /\ \E i \in AgentCalls("call_claude") :
          agent_trace[i].out.text # agent_result.sql.text

\* C29: every sql that generate_safe_sql returns with valid = true carries a
\* LIMIT clause whose value is at most max_rows.
C29_ReturnedSqlCapped ==
    agent_pc = "returned" /\ agent_result.valid =>
        LET t == upper(agent_result.sql.text)
        IN  /\ limit_match(t) # 0
            /\ int(limit_group1(t, limit_match(t))) <= max_rows(guardrails)

(***************************************************************************)
(* Properties of validate_spec                                             *)
(***************************************************************************)
\* the list under a key of the configuration file f, none when the file is
\* unreadable or lacks the key
Configured(f, key) == IF f.readable THEN get(f.content, key, <<>>) ELSE <<>>

\* table t is permitted for the user's role, an unrecognised role standing
\* under the restrictions of viewer
PermittedForRole(t) ==
    /\ config_files.roles.readable
    /\ LET roles == config_files.roles.content
           cfg == IF user_role \in DOMAIN roles THEN roles[user_role]
                  ELSE IF "viewer" \in DOMAIN roles THEN roles["viewer"]
                  ELSE <<>>
       IN  /\ "allowed_tables" \in DOMAIN cfg
           /\ cfg["allowed_tables"].all \/ InList(t, cfg["allowed_tables"].list)

\* the number of times x stands in list l
Count(x, l) == Cardinality({i \in 1..Len(l) : l[i] = x})

\* C27: on every return path of validate_spec, also when the configuration
\* cannot be loaded, every table of the cleaned spec is in the global
\* allowed_tables and permitted for the role, every chart is an allowed
\* chart type, and each removed item has a violation reason.
C27_CleanedSpecGoverned ==
    vs_pc = "returned" =>
        LET tables_in == get(spec, "tables", <<>>)
            charts_in == get(spec, "charts", <<>>)
            tables_out == get(cleaned_spec, "tables", <<>>)
            charts_out == get(cleaned_spec, "charts", <<>>)
        IN  /\ \A i \in 1..Len(tables_out) :
                  /\ InList(tables_out[i], Configured(config_files.guardrails, "allowed_tables"))
                  /\ PermittedForRole(tables_out[i])
            /\ \A i \in 1..Len(charts_out) :
                  InList(charts_out[i], Configured(config_files.guardrails, "allowed_chart_types"))
            /\ \A t \in TableNames :
                  Count(t, tables_in) > Count(t, tables_out) =>
                      \E v \in 1..Len(violations) : violations[v].item = t
            /\ \A c \in ChartTypes :
                  Count(c, charts_in) > Count(c, charts_out) =>
                      \E v \in 1..Len(violations) : violations[v].item = c

\* with both configuration files loaded, the cleaned spec is governed
GovernedWhenLoaded ==
    vs_pc = "returned" /\ config_files.guardrails.readable
        /\ config_files.roles.readable => C27_CleanedSpecGoverned

(***************************************************************************)
(* Properties of the schema cache                                          *)
(***************************************************************************)
\* the positions in cache_log of the calls that fetched, before position i
FetchesBefore(i) ==
    {j \in 1..(i - 1) : cache_log[j].op = "get" /\ cache_log[j].fetched}

\* the last of them
LastFetchBefore(i) ==
    CHOOSE j \in FetchesBefore(i) : \A h \in FetchesBefore(i) : h <= j

\* invalidate_cache was called between positions j and i
InvalidatedBetween(j, i) ==
    \E k \in (j + 1)..(i - 1) : cache_log[k].op = "invalidate"

\* the call at position i finds a fetched value no older than CACHE_TTL
\* that was not invalidated
FreshAt(i) ==
    /\ FetchesBefore(i) # {}
    /\ ~InvalidatedBetween(LastFetchBefore(i), i)
    /\ cache_log[i].at - cache_log[LastFetchBefore(i)].at <= CACHE_TTL

C23_UserThenAssistant ==
    page_pc \in {"rerun", "raised"} =>
        /\ chat_history = <<"user", "assistant">>
        /\ ~last_chat_sql.null

(***************************************************************************)
(* Properties of the chat answer flow                                      *)
(***************************************************************************)
\* the positions in trace of the calls to a collaborator
Calls(name) == {i \in 1..Len(trace) : trace[i].call = name}

\* the warehouse calls made for the healed query
HealedExecutions ==
    {i \in Calls("execute") : \E h \in Calls("call_claude:heal") : h < i}

\* the validations of the healed query that rejected it
HealedRejections ==
    {i \in Calls("validate_query") :
        /\ \E h \in Calls("call_claude:heal") : h < i
        /\ ~trace[i].out.ok}

\* C11 (as claimed): every SQL text handed to the warehouse's execute was
\* returned before, in the same path, by a validate_query call that accepted.
C11_SingleEnforcementPoint ==
    \A i \in Calls("execute") :
        \E j \in Calls("validate_query") :
            /\ j < i
            /\ trace[j].out.ok
            /\ trace[j].out.sql = trace[i].arg

\* C12 (as claimed): every validate_query call of a process evaluates
\* against the same policy: all reads of the configuration made for one
\* answer, the first-pass and the healed-query validation, return the same
\* banned list and the same max_rows.
C12_OnePolicyPerProcess ==
    \A i, j \in Calls("load_guardrails") : trace[i].out = trace[j].out

\* C5 (as claimed): the self-healing step is never entered after
\* validate_query rejected the first attempt's SQL.
C5_NoHealAfterRejection ==
    pc = "heal" =>
        ~\E i \in Calls("validate_query") : ~trace[i].out.ok

\* C6: the warehouse executes, for a healed query, only what the full
\* validator returned for the repair LLM's proposal, validated right before;
\* and when the validator rejects the proposal nothing is executed for it and
\* the answer is a failure.
C6_HealedQueryValidated ==
    /\ \A i \in HealedExecutions :
          /\ trace[i - 1].call = "validate_query"
          /\ trace[i - 1].arg = healed_sql.text
          /\ trace[i - 1].out = validate_query(healed_sql.text, guardrails)
          /\ trace[i - 1].out.ok
          /\ trace[i].arg = trace[i - 1].out.sql
    /\ (pc = "done" /\ HealedRejections # {}) =>
          /\ HealedExecutions = {}
          /\ ~chat_result.can_answer
          /\ ~chat_result.policy_note.self_healed

\* C6 witness: the answer after the validator rejected the healed query
C6_Witness ==
    /\ pc = "done"
    /\ HealedRejections # {}
    /\ Calls("execute") # {}

\* C7: one answer_chat call invokes the warehouse at most twice.
C7_AtMostTwoExecutions == Cardinality(Calls("execute")) <= 2

\* C7 witness: an answer for which the warehouse was invoked twice
C7_Witness == pc = "done" /\ Cardinality(Calls("execute")) = 2

\* C8: one answer_chat call asks the repair LLM at most once (MAX_RETRIES),
\* also when the healed query failed its validation or its execution.
C8_AtMostOneRepair == Cardinality(Calls("call_claude:heal")) <= MAX_RETRIES

\* C8 witness: the answer after the one repair's healed query failed in the
\* warehouse
C8_Witness ==
    /\ pc = "done"
    /\ Cardinality(Calls("call_claude:heal")) = 1
    /\ HealedExecutions # {}
    /\ ~chat_result.can_answer

\* the healed query was validated and its execution succeeded
HealSucceeded == HealedExecutions # {} /\ ok

\* what a ChatResult reports as healed and as diff_text; a ChatResult has no
\* field for either, the self-healed mark of its policy_note is read as the
\* first and a missing diff as the empty text
ReportedHealed(r) == r.policy_note.self_healed
ReportedDiff(r) == IF "heal_diff" \in DOMAIN r THEN r.heal_diff ELSE <<>>

\* C9 (as claimed): the result reports healed = true and the unified diff of
\* the original and the healed query exactly when the healed query was
\* validated and executed successfully, and healed = false and an empty diff
\* in every other outcome.
C9_HealedAndDiffReported ==
    pc = "done" =>
        /\ ReportedHealed(chat_result) = HealSucceeded
        /\ ReportedDiff(chat_result) =
              IF HealSucceeded
              THEN sql_diff(trace[CHOOSE h \in Calls("call_claude:heal") : TRUE].arg,
                            healed_sql.text)
              ELSE <<>>

\* the prompt holds a blocked sensitive term, in any letter case
MentionsSensitive(p) ==
    \E i \in 1..Len(p) : \E t \in _BLOCKED_TERMS : lower(p)[i] = t

\* C24: for a prompt that holds a blocked term no collaborator is ever
\* called (not the SQL-generating LLM, not the validator or the warehouse,
\* not the repair LLM, not the insight LLM), and the answer is a
\* cannot-answer result without preview rows.
C24_SensitivePromptRefused ==
    MentionsSensitive(prompt) =>
        /\ trace = <<>>
        /\ pc \in {"start", "done"}
        /\ pc = "done" =>
              /\ chat_result.returned
              /\ ~chat_result.can_answer
              /\ chat_result.preview_rows = <<>>

\* C24 witness: the refusal returned for a prompt with a capitalised blocked
\* term
C24_Witness ==
    /\ pc = "done"
    /\ \E i \in 1..Len(prompt) : prompt[i] = "Email"
    /\ chat_result.returned
    /\ ~chat_result.can_answer

\* the SQL of this answer came from the keyword fallback: Agent 1 could not
\* answer or gave no SQL
FromFallback ==
    \E i \in Calls("call_claude") :
        LET gen == _generate_sql_via_llm(trace[i].out)
        IN  ~gen.raises /\ (gen.cannot \/ gen.sql.null)

\* C30: when the query came from the keyword fallback no repair is requested
\* and the warehouse is asked at most once, and a failed execution is
\* answered as a failure under the fallback's label; the label
\* 'ai (self-healed)' is reported only when a healed query was executed
\* successfully.
C30_HealOnlyForAi ==
    /\ FromFallback =>
          /\ source_label = "keyword_fallback"
          /\ Calls("call_claude:heal") = {}
          /\ Cardinality(Calls("execute")) <= 1
          /\ pc # "heal" /\ pc # "run_healed"
          /\ (pc = "done" /\ ~ok) =>
                /\ ~chat_result.can_answer
                /\ chat_result.sql = chat_sql
                /\ chat_result.policy_note.source = "keyword_fallback"
    /\ Calls("call_claude:heal") # {} => source_label \in {"ai", "ai (self-healed)"}
    /\ source_label = "ai (self-healed)" => HealSucceeded
    /\ (pc = "done" /\ chat_result.policy_note.source = "ai (self-healed)") =>
          HealSucceeded /\ chat_result.can_answer

\* C30 witness: the answer after the keyword fallback's query failed in the
\* warehouse
C30_Witness ==
    /\ pc = "done"
    /\ FromFallback
    /\ Calls("execute") # {}
    /\ ~chat_result.can_answer

\* C10 (as claimed): answer_chat never raises, whatever the collaborators
\* return.
C10_NeverRaises == pc # "raised"

====
